---- MODULE Spec2Model ----
(***************************************************************************)
(* Name-classification decision pipeline: the three /predict endpoint      *)
(* variants (app.py, app-precheck.py, app-precheck-prompt-enhanment.py).   *)
(*                                                                         *)
(* A text is a sequence of code points, each written as a one-element      *)
(* string; "U+00DF" stands for the single code point LATIN SMALL LETTER    *)
(* SHARP S, whose Python upper() is the two code points "SS".              *)
(***************************************************************************)
EXTENDS Integers, Sequences, FiniteSets, TLC

VARIABLES pc, variant, data, model, name, prechecked, precheck, reply, response,
          remoteCalls, remoteOutcome

\* the evaluation harness (test_models.py, test_models_parallel.py)
VARIABLES harness, hpc, stage, attempt, outcome, slept, predictions

\* the endpoint's variables
pvars == <<pc, variant, data, model, name, prechecked, precheck, reply, response,
          remoteCalls, remoteOutcome>>

\* the harness's variables
hvars == <<harness, hpc, stage, attempt, outcome, slept, predictions>>

vars == <<pvars, hvars>>

(***************************************************************************)
(* Bounds of the model.                                                    *)
(***************************************************************************)
\* longest name drawn from the full alphabet
MaxLen == 3
\* longest name drawn from the letter/period/hyphen alphabet
MaxLong == 6
\* names in the dataset the harness replays
NumNames == 3
\* worker threads of the pool (MAX_WORKERS, scaled to the dataset)
MaxWorkers == 2

(***************************************************************************)
(* Characters.                                                             *)
(***************************************************************************)
LowerLetters ==
  <<"a","b","c","d","e","f","g","h","i","j","k","l","m",
    "n","o","p","q","r","s","t","u","v","w","x","y","z">>

UpperLetters ==
  <<"A","B","C","D","E","F","G","H","I","J","K","L","M",
    "N","O","P","Q","R","S","T","U","V","W","X","Y","Z">>

AsciiLower == {LowerLetters[i] : i \in 1..Len(LowerLetters)}

AsciiUpper == {UpperLetters[i] : i \in 1..Len(UpperLetters)}

\* [A-Za-z]
AsciiLetter == AsciiLower \cup AsciiUpper

\* \s of a str pattern, str.strip() and str.split(): Unicode whitespace
Whitespace == {" ", "\t", "\n"}

Digits == {"0", "1", "9"}

SharpS == "U+00DF"

\* \w of a str pattern: Unicode letters, digits and the underscore
WordChar == AsciiLetter \cup Digits \cup {"_", SharpS}

IndexOf(seq, c) == CHOOSE i \in 1..Len(seq) : seq[i] = c

\* str.upper() of one code point (a text: upper() may lengthen)
UpperChar(c) ==
  IF c \in AsciiLower THEN <<UpperLetters[IndexOf(LowerLetters, c)]>>
  ELSE IF c = SharpS THEN <<"S", "S">>
  ELSE <<c>>

\* str.lower() of one code point
LowerChar(c) ==
  IF c \in AsciiUpper THEN <<LowerLetters[IndexOf(UpperLetters, c)]>>
  ELSE <<c>>

RECURSIVE Upper(_)
Upper(s) == IF s = <<>> THEN <<>> ELSE UpperChar(Head(s)) \o Upper(Tail(s))

RECURSIVE Lower(_)
Lower(s) == IF s = <<>> THEN <<>> ELSE LowerChar(Head(s)) \o Lower(Tail(s))

(***************************************************************************)
(* Normalization (the first lines of predict).                             *)
(***************************************************************************)
RECURSIVE LStrip(_)
LStrip(s) ==
  IF s = <<>> THEN s
  ELSE IF Head(s) \in Whitespace THEN LStrip(Tail(s)) ELSE s

RECURSIVE RStrip(_)
RStrip(s) ==
  IF s = <<>> THEN s
  ELSE IF s[Len(s)] \in Whitespace THEN RStrip(SubSeq(s, 1, Len(s) - 1)) ELSE s

\* str.strip()
Strip(s) == RStrip(LStrip(s))

\* re.sub(r'\s+', ' ', s): every maximal run of whitespace becomes one space
RECURSIVE CollapseSpaces(_)
CollapseSpaces(s) ==
  IF s = <<>> THEN <<>>
  ELSE IF Head(s) \in Whitespace
       THEN <<" ">> \o CollapseSpaces(LStrip(s))
       ELSE <<Head(s)>> \o CollapseSpaces(Tail(s))

\* the first word of a text that starts with a non-space
RECURSIVE FirstWord(_)
FirstWord(s) ==
  IF s = <<>> \/ Head(s) \in Whitespace THEN <<>>
  ELSE <<Head(s)>> \o FirstWord(Tail(s))

\* str.split(): the maximal runs of non-whitespace
RECURSIVE Split(_)
Split(s) ==
  LET t == LStrip(s)
      w == FirstWord(t)
  IN IF t = <<>> THEN <<>>
     ELSE <<w>> \o Split(SubSeq(t, Len(w) + 1, Len(t)))

\* ' '.join(words)
RECURSIVE Join(_)
Join(words) ==
  IF words = <<>> THEN <<>>
  ELSE IF Len(words) = 1 THEN words[1]
  ELSE words[1] \o <<" ">> \o Join(Tail(words))

\* word[:1].upper() + word[1:].lower()
Capitalize(word) ==
  Upper(SubSeq(word, 1, 1)) \o Lower(SubSeq(word, 2, Len(word)))

CapitalizeWords(s) ==
  LET ws == Split(s)
  IN Join([i \in 1..Len(ws) |-> Capitalize(ws[i])])

Variants == {"app", "app-precheck", "app-precheck-prompt-enhanment"}

JsonVariants == {"app", "app-precheck"}

PrecheckVariants == {"app-precheck", "app-precheck-prompt-enhanment"}

\* the normalization each variant performs on data.get('name', '')
Normalize(v, s) ==
  IF v = "app" THEN Strip(CollapseSpaces(Strip(s)))
  ELSE IF v = "app-precheck" THEN CapitalizeWords(Strip(CollapseSpaces(Strip(s))))
  ELSE CapitalizeWords(CollapseSpaces(Strip(s)))

(***************************************************************************)
(* precheck_name                                                           *)
(***************************************************************************)
MinLetters == 3

\* rule 1: re.search(r"[^A-Za-z\s\-.]", name)
InvalidCharacters(s) ==
  \E i \in 1..Len(s) : s[i] \notin (AsciiLetter \cup Whitespace \cup {"-", "."})

LetterCount(s) == Cardinality({i \in 1..Len(s) : s[i] \in AsciiLetter})

\* mutant: the letter count is compared with 2
TooFewLetters_two(s) == LetterCount(s) < MinLetters - 1

\* rule 2: len(re.findall(r"[A-Za-z]", name)) < 3
TooFewLetters(s) == LetterCount(s) < MinLetters

\* rule 3: '--' in name or '..' in name
ConsecutivePunctuation(s) ==
  \E i \in 1..(Len(s) - 1) :
     \/ s[i] = "-" /\ s[i + 1] = "-"
     \/ s[i] = "." /\ s[i + 1] = "."

\* mutant: the lookahead is dropped
InvalidDotFormatting_lookbehind(s) ==
  \E i \in 2..Len(s) : s[i] = "." /\ s[i - 1] \in WordChar

\* rule 4: re.search(r"(?<=\w)\.(?=\w)", name)
InvalidDotFormatting(s) ==
  \E i \in 2..(Len(s) - 1) :
     s[i] = "." /\ s[i - 1] \in WordChar /\ s[i + 1] \in WordChar

\* the message each variant's precheck_name returns for a rule
ReasonText(v, rule) ==
  IF v = "app-precheck"
  THEN CASE rule = 1 -> "Invalid characters present"
         [] rule = 2 -> "Too few letters"
         [] rule = 3 -> "Consecutive punctuation"
         [] rule = 4 -> "Invalid dot formatting, must have spaces after dot(.)"
  ELSE CASE rule = 1 -> "Invalid characters"
         [] rule = 2 -> "Too few letters"
         [] rule = 3 -> "Consecutive punctuation"
         [] rule = 4 -> "Invalid dot formatting"

NoReason == "None"

\* mutant: the dot-formatting test is made before the consecutive-punctuation test
precheck_name_reordered(v, s) ==
  IF InvalidCharacters(s) THEN [valid |-> FALSE, reason |-> ReasonText(v, 1)]
  ELSE IF TooFewLetters(s) THEN [valid |-> FALSE, reason |-> ReasonText(v, 2)]
  ELSE IF InvalidDotFormatting(s) THEN [valid |-> FALSE, reason |-> ReasonText(v, 4)]
  ELSE IF ConsecutivePunctuation(s) THEN [valid |-> FALSE, reason |-> ReasonText(v, 3)]
  ELSE [valid |-> TRUE, reason |-> NoReason]

\* precheck_name(name) of variant v: (valid, reason)
precheck_name(v, s) ==
  IF InvalidCharacters(s) THEN [valid |-> FALSE, reason |-> ReasonText(v, 1)]
  ELSE IF TooFewLetters(s) THEN [valid |-> FALSE, reason |-> ReasonText(v, 2)]
  ELSE IF ConsecutivePunctuation(s) THEN [valid |-> FALSE, reason |-> ReasonText(v, 3)]
  ELSE IF InvalidDotFormatting(s) THEN [valid |-> FALSE, reason |-> ReasonText(v, 4)]
  ELSE [valid |-> TRUE, reason |-> NoReason]

(***************************************************************************)
(* The remote reply.  A reply is a sequence of lexical units: the          *)
(* punctuation of JSON, the quote, white space, the fence (three         *)
(* backquotes, the unit FENCE), the annotation "json"/"JSON", and words    *)
(* (every other unit).                                                     *)
(***************************************************************************)
Q == "\""

\* the three backquotes that open or close a fenced block
Fence == "FENCE"

\* json, matched under re.IGNORECASE
FenceTags == {"json", "JSON"}

NumberUnits == {"0", "1"}

JValue(k, t, i) == [kind |-> k, text |-> t, items |-> i]

JString(t) == JValue("string", t, <<>>)

\* no value: a key the dict does not have, a field the response does not have
JAbsent == JValue("absent", <<>>, <<>>)

\* Python's None: what dict.get returns for a missing key, and JSON null
JNone == JValue("null", <<>>, <<>>)

Failed == [ok |-> FALSE, value |-> JAbsent, rest |-> <<>>]

Parsed(v, rest) == [ok |-> TRUE, value |-> v, rest |-> rest]

\* the units of a string up to its closing quote (the text after the opening one)
RECURSIVE StringBody(_)
StringBody(t) ==
  IF t = <<>> \/ Head(t) = Q THEN <<>> ELSE <<Head(t)>> \o StringBody(Tail(t))

\* a JSON string, t being the text after its opening quote; strict mode
\* rejects a control character (tab, newline) inside a string
ParseString(t) ==
  LET body == StringBody(t)
  IN IF Len(body) = Len(t) THEN Failed
     ELSE IF \E i \in 1..Len(body) : body[i] \in {"\t", "\n"} THEN Failed
     ELSE Parsed(JString(body), SubSeq(t, Len(body) + 2, Len(t)))

RECURSIVE ParseValue(_)
RECURSIVE ParseMembers(_, _)
RECURSIVE ParseElements(_, _)

\* the members of an object, t starting at a key; acc the members read so far
ParseMembers(t, acc) ==
  IF t = <<>> \/ Head(t) # Q THEN Failed
  ELSE LET k == ParseString(Tail(t))
           c == LStrip(k.rest)
       IN IF ~k.ok \/ c = <<>> \/ Head(c) # ":" THEN Failed
          ELSE LET v == ParseValue(Tail(c))
                   r == LStrip(v.rest)
                   now == Append(acc, [key |-> k.value.text, value |-> v.value])
               IN IF ~v.ok \/ r = <<>> THEN Failed
                  ELSE IF Head(r) = "}" THEN Parsed(JValue("object", <<>>, now), Tail(r))
                  ELSE IF Head(r) = "," THEN ParseMembers(LStrip(Tail(r)), now)
                  ELSE Failed

\* the elements of an array, t starting at an element
ParseElements(t, acc) ==
  LET v == ParseValue(t)
      r == LStrip(v.rest)
      now == Append(acc, v.value)
  IN IF ~v.ok \/ r = <<>> THEN Failed
     ELSE IF Head(r) = "]" THEN Parsed(JValue("array", <<>>, now), Tail(r))
     ELSE IF Head(r) = "," THEN ParseElements(Tail(r), now)
     ELSE Failed

\* one JSON value at the start of t (after white space), and the text after it
ParseValue(t) ==
  LET s == LStrip(t)
  IN IF s = <<>> THEN Failed
     ELSE IF Head(s) = "{"
          THEN LET m == LStrip(Tail(s))
               IN IF m # <<>> /\ Head(m) = "}"
                  THEN Parsed(JValue("object", <<>>, <<>>), Tail(m))
                  ELSE ParseMembers(m, <<>>)
     ELSE IF Head(s) = "["
          THEN LET m == LStrip(Tail(s))
               IN IF m # <<>> /\ Head(m) = "]"
                  THEN Parsed(JValue("array", <<>>, <<>>), Tail(m))
                  ELSE ParseElements(m, <<>>)
     ELSE IF Head(s) = Q THEN ParseString(Tail(s))
     ELSE IF Head(s) \in NumberUnits THEN Parsed(JValue("number", <<Head(s)>>, <<>>), Tail(s))
     ELSE IF Head(s) = "null" THEN Parsed(JNone, Tail(s))
     ELSE Failed

\* mutant: text after the value is not an error
JsonLoads_prefix(t) == ParseValue(t)

\* json.loads(text): ok is FALSE where it raises JSONDecodeError
JsonLoads(t) ==
  LET r == ParseValue(t)
  IN IF r.ok /\ LStrip(r.rest) = <<>> THEN r ELSE Failed

\* dict.get(key, default): the last member with that key
DictGet(obj, key, default) ==
  LET hits == {i \in 1..Len(obj.items) : obj.items[i].key = key}
  IN IF hits = {} THEN default
     ELSE obj.items[CHOOSE i \in hits : \A j \in hits : j <= i].value

\* the end of the white space that starts at position i of t
RECURSIVE SkipSpaces(_, _)
SkipSpaces(t, i) ==
  IF i <= Len(t) /\ t[i] \in Whitespace THEN SkipSpaces(t, i + 1) ELSE i

\* the positions k at which ({.*?})\s*FENCE can end its group, the group
\* having started at position b
GroupEnds(t, b) ==
  {k \in (b + 1)..Len(t) :
     /\ t[k] = "}"
     /\ LET f == SkipSpaces(t, k + 1) IN f <= Len(t) /\ t[f] = Fence}

\* the positions at which FENCE json\s*({.*?})\s*FENCE matches
MatchStarts(t) ==
  {i \in 1..(Len(t) - 1) :
     /\ t[i] = Fence
     /\ t[i + 1] \in FenceTags
     /\ LET b == SkipSpaces(t, i + 2)
        IN b <= Len(t) /\ t[b] = "{" /\ GroupEnds(t, b) # {}}

Min(S) == CHOOSE x \in S : \A y \in S : x <= y

\* re.search(r"FENCE json\s*({.*?})\s*FENCE", text, re.DOTALL | re.IGNORECASE):
\* group(1) of the leftmost match, the lazy .*? ending at the first possible "}"
FencedGroup(t) ==
  LET i == Min(MatchStarts(t))
      b == SkipSpaces(t, i + 2)
  IN SubSeq(t, b, Min(GroupEnds(t, b)))

\* extract_json_from_response(text) of app.py, and the two inline lines of
\* app-precheck.py: the fenced group if there is one, else the stripped text
extract_json_from_response(t) ==
  IF MatchStarts(t) # {} THEN FencedGroup(t) ELSE Strip(t)

(***************************************************************************)
(* Responses: jsonify(body), status.  A key the body lacks is "" (error,   *)
(* prediction), hasName = FALSE (name) or JAbsent (reason).                *)
(***************************************************************************)
NoResponse ==
  [status |-> 0, error |-> "", hasName |-> FALSE, name |-> <<>>,
   prediction |-> "", reason |-> JAbsent]

ErrorResponse(st, msg) ==
  [status |-> st, error |-> msg, hasName |-> FALSE, name |-> <<>>,
   prediction |-> "", reason |-> JAbsent]

VerdictResponse(n, pred, why) ==
  [status |-> 200, error |-> "", hasName |-> TRUE, name |-> n,
   prediction |-> pred, reason |-> why]

VALID_MODELS == {"gpt-4.1", "gpt-4.1-mini", "gpt-4.1-nano", "gpt-4o-mini"}

\* mutant: the allow-list is not consulted
ModelAllowed_any(m) == TRUE

ModelAllowed(m) == m \in VALID_MODELS

\* data.get('model', <default>)
DefaultModel(v) ==
  IF v = "app-precheck-prompt-enhanment" THEN "gpt-4o-mini" ELSE "gpt-4.1-nano"

ModelOf(v, d) == IF d.hasModel THEN d.model ELSE DefaultModel(v)

\* data.get('name', '')
RawName(d) == IF d.hasName THEN d.name ELSE <<>>

\* "not data": the request body is the empty object
EmptyPayload(d) == ~d.hasName /\ ~d.hasModel

NotRun == [valid |-> FALSE, reason |-> NoReason]

Answer(r, n, ran, pre) ==
  [call |-> FALSE, response |-> r, name |-> n, prechecked |-> ran, precheck |-> pre]

CallRemote(n, ran, pre) ==
  [call |-> TRUE, response |-> NoResponse, name |-> n, prechecked |-> ran,
   precheck |-> pre]

\* mutant: the unlisted model is reported as a server error
InvalidModelError_500 == ErrorResponse(500, "Invalid model. Choose from VALID_MODELS")

InvalidModelError == ErrorResponse(400, "Invalid model. Choose from VALID_MODELS")

\* app.py predict, up to the remote call
predict_app(d) ==
  LET n == Normalize("app", RawName(d))
  IN IF EmptyPayload(d)
     THEN Answer(ErrorResponse(400, "Invalid JSON payload"), <<>>, FALSE, NotRun)
     ELSE IF n = <<>>
     THEN Answer(ErrorResponse(400, "No name provided"), n, FALSE, NotRun)
     ELSE IF ~ModelAllowed(ModelOf("app", d))
     THEN Answer(InvalidModelError, n, FALSE, NotRun)
     ELSE CallRemote(n, FALSE, NotRun)

\* app-precheck.py predict, up to the remote call
predict_precheck(d) ==
  LET n == Normalize("app-precheck", RawName(d))
      pre == precheck_name("app-precheck", n)
  IN IF EmptyPayload(d)
     THEN Answer(ErrorResponse(400, "Invalid JSON payload"), <<>>, FALSE, NotRun)
     ELSE IF n = <<>>
     THEN Answer(ErrorResponse(400, "No name provided"), n, FALSE, NotRun)
     ELSE IF ~pre.valid
     THEN Answer(VerdictResponse(n, "Not Realistic", JString(<<pre.reason>>)), n, TRUE, pre)
     ELSE IF ~ModelAllowed(ModelOf("app-precheck", d))
     THEN Answer(InvalidModelError, n, TRUE, pre)
     ELSE CallRemote(n, TRUE, pre)

\* app-precheck-prompt-enhanment.py predict, up to the remote call
predict_enhanment(d) ==
  LET v == "app-precheck-prompt-enhanment"
      n == Normalize(v, RawName(d))
      pre == precheck_name(v, n)
  IN IF n = <<>>
     THEN Answer(ErrorResponse(400, "No name provided"), n, FALSE, NotRun)
     ELSE IF ~ModelAllowed(ModelOf(v, d))
     THEN Answer(InvalidModelError, n, FALSE, NotRun)
     ELSE IF ~pre.valid
     THEN Answer(VerdictResponse(n, "Not Realistic", JAbsent), n, TRUE, pre)
     ELSE CallRemote(n, TRUE, pre)

predict(v, d) ==
  IF v = "app" THEN predict_app(d)
  ELSE IF v = "app-precheck" THEN predict_precheck(d)
  ELSE predict_enhanment(d)

Realistic == JString(<<"Realistic">>)

NotRealistic == JString(<<"Not Realistic">>)

ReasonPlaceholder == JString(<<"Reason not provided by AI.">>)

\* mutant: the Realistic verdict passes the reply's reason on
parse_reply_keeps_reason(n, r) ==
  LET loaded == JsonLoads(extract_json_from_response(Strip(r)))
      result == loaded.value
      pred == DictGet(result, <<"prediction">>, JNone)
  IN IF ~loaded.ok
     THEN ErrorResponse(500, "Invalid JSON response format from model")
     ELSE IF result.kind # "object"
     THEN ErrorResponse(500, "OpenAI API error")
     ELSE IF pred \notin {Realistic, NotRealistic}
     THEN ErrorResponse(500, "Invalid prediction value from model")
     ELSE VerdictResponse(n, pred.text[1], DictGet(result, <<"reason">>, ReasonPlaceholder))

\* app.py and app-precheck.py: from the reply to the response.  A parsed
\* value that is no dict has no get: the AttributeError is caught by
\* "except Exception as api_error"
parse_reply(n, r) ==
  LET loaded == JsonLoads(extract_json_from_response(Strip(r)))
      result == loaded.value
      pred == DictGet(result, <<"prediction">>, JNone)
  IN IF ~loaded.ok
     THEN ErrorResponse(500, "Invalid JSON response format from model")
     ELSE IF result.kind # "object"
     THEN ErrorResponse(500, "OpenAI API error")
     ELSE IF pred \notin {Realistic, NotRealistic}
     THEN ErrorResponse(500, "Invalid prediction value from model")
     ELSE IF pred = Realistic
     THEN VerdictResponse(n, "Realistic", JAbsent)
     ELSE VerdictResponse(n, "Not Realistic",
                          DictGet(result, <<"reason">>, ReasonPlaceholder))

\* app-precheck-prompt-enhanment.py: the first character of the reply decides
digit_reply(n, r) ==
  LET text == Strip(r)
      digit == IF text = <<>> THEN "" ELSE Head(text)
  IN IF digit = "1" THEN VerdictResponse(n, "Realistic", JAbsent)
     ELSE IF digit = "0" THEN VerdictResponse(n, "Not Realistic", JAbsent)
     ELSE ErrorResponse(500, "Invalid response from model")

handle_reply(v, n, r) ==
  IF v \in JsonVariants THEN parse_reply(n, r) ELSE digit_reply(n, r)

\* the error kinds of the error taxonomy, by the message the code sends
\* (an empty request body names no candidate: its error is an EmptyName)
ErrorKind(r) ==
  IF r.error = "" THEN "None"
  ELSE IF r.error \in {"No name provided", "Invalid JSON payload"} THEN "EmptyName"
  ELSE IF r.error = "Invalid model. Choose from VALID_MODELS" THEN "InvalidModel"
  ELSE IF r.error = "Invalid JSON response format from model" THEN "MalformedResponse"
  ELSE IF r.error \in {"Invalid prediction value from model", "Invalid response from model"}
       THEN "InvalidPrediction"
  ELSE "RemoteError"

\* the four reason codes, by the message precheck_name returns
ReasonCode(msg) ==
  IF msg \in {"Invalid characters present", "Invalid characters"} THEN "InvalidCharacters"
  ELSE IF msg = "Too few letters" THEN "TooFewLetters"
  ELSE IF msg = "Consecutive punctuation" THEN "ConsecutivePunctuation"
  ELSE IF msg \in {"Invalid dot formatting, must have spaces after dot(.)",
                   "Invalid dot formatting"} THEN "InvalidDotFormatting"
  ELSE "None"

(***************************************************************************)
(* Inputs.                                                                 *)
(***************************************************************************)
SeqsUpTo(A, n) == UNION {[1..k -> A] : k \in 0..n}

FullAlphabet == {"a", "B", " ", "\t", ".", "-", "1", SharpS}

LongAlphabet == {"a", ".", "-"}

\* the names of the testable properties
ExampleNames ==
  {<<"m",".","a","h","m","e","d">>,
   <<"M","r","."," ","H","a","n","i","f"," ","U","d","d","i","n">>,
   <<"p","."," ","k","."," ","r","o","b","i">>,
   <<"K","u">>,
   <<"J","a","h","a","n","a","r","a","-","-","B","e","g","u","m">>,
   <<"M","a","r","y",".",".","A","n","n","e">>,
   <<"A","b","d","u","l","l","a","h","1","2","3">>}

Names == SeqsUpTo(FullAlphabet, MaxLen) \cup SeqsUpTo(LongAlphabet, MaxLong)
           \cup ExampleNames

SampleNames == ExampleNames \cup {<<>>, <<" ">>, <<"a", "l", "i">>}

ModelChoices == {"gpt-4o-mini", "gpt-5"}

\* the request bodies: name and model each given or not
Requests(names) ==
  {[hasName |-> TRUE, name |-> n, hasModel |-> TRUE, model |-> m] :
      n \in names, m \in ModelChoices}
  \cup {[hasName |-> TRUE, name |-> n, hasModel |-> FALSE, model |-> ""] : n \in names}
  \cup {[hasName |-> FALSE, name |-> <<>>, hasModel |-> TRUE, model |-> m] :
          m \in ModelChoices}
  \cup {[hasName |-> FALSE, name |-> <<>>, hasModel |-> FALSE, model |-> ""]}

Quoted(t) == <<Q>> \o t \o <<Q>>

Member(k, v) == Quoted(<<k>>) \o <<":">> \o v

\* the texts a reply gives as the value of "prediction" (<<>>: no such member)
PredictionTexts ==
  {<<>>, Quoted(<<"Realistic">>), Quoted(<<"Not Realistic">>), Quoted(<<"realistic">>),
   <<"1">>, <<"null">>, <<"[">> \o Quoted(<<"Realistic">>) \o <<"]">>}

\* the texts a reply gives as the value of "reason" (<<>>: no such member)
ReasonTexts ==
  {<<>>, Quoted(<<"keyboard", " ", "pattern">>), Quoted(<<"}", Fence>>),
   Quoted(<<Fence, "json", "{", "}", Fence>>), <<"{", "}">>, <<"null">>}

ObjectText(p, r) ==
  <<"{">> \o (IF p = <<>> THEN <<>> ELSE Member("prediction", p))
          \o (IF p # <<>> /\ r # <<>> THEN <<",">> ELSE <<>>)
          \o (IF r = <<>> THEN <<>> ELSE Member("reason", r))
          \o <<"}">>

\* JSON objects, as the prompt asks for them
Payloads ==
  {ObjectText(p, r) : p \in PredictionTexts, r \in ReasonTexts}
  \cup {<<"{", "\n", " ">> \o Member("prediction", Quoted(<<"Realistic">>)) \o <<"\n", "}">>,
        <<"{">> \o Member("reason", Quoted(<<"x">>)) \o <<",">>
                \o Member("prediction", Quoted(<<"Not Realistic">>)) \o <<"}">>,
        <<"{">> \o Member("prediction", Quoted(<<"Realistic">>)) \o <<",">>
                \o Member("meta", <<"{">> \o Member("a", <<"1">>) \o <<"}">>) \o <<"}">>,
        <<"{">> \o Member("prediction", Quoted(<<"Realistic">>)) \o <<",">>
                \o Member("prediction", Quoted(<<"Not Realistic">>)) \o <<"}">>}

\* JSON values that are no object
OtherJson ==
  {<<"[", "]">>, <<"1">>, <<"0">>, <<"null">>, Quoted(<<"Realistic">>),
   <<"[">> \o ObjectText(Quoted(<<"Realistic">>), <<>>) \o <<"]">>}

\* texts that are no JSON
NotJson ==
  {<<>>, <<"x">>, <<"Realistic">>, <<"{">>, <<"{">> \o Quoted(<<"prediction">>) \o <<"}">>,
   ObjectText(Quoted(<<"Realistic">>), <<>>) \o <<" ", "x">>,
   <<"{">> \o Member("prediction", Quoted(<<"Realistic">>)) \o <<",", "}">>,
   <<"1", "x">>, <<"{">> \o Member("prediction", <<Q, "Realistic">>)}

\* a payload in a fenced code block annotated as json
Fenced(p) == <<Fence, "json", "\n">> \o p \o <<"\n", Fence>>

Wraps == {"bare", "fenced", "tight", "upper", "prose", "plain", "spaced"}

Wrap(w, p) ==
  CASE w = "bare" -> p
    [] w = "fenced" -> Fenced(p)
    [] w = "tight" -> <<Fence, "json">> \o p \o <<Fence>>
    [] w = "upper" -> <<Fence, "JSON", " ">> \o p \o <<" ", Fence>>
    [] w = "prose" -> <<"Here", " ">> \o Fenced(p) \o <<"\n", "x">>
    [] w = "plain" -> <<Fence, "\n">> \o p \o <<"\n", Fence>>
    [] w = "spaced" -> <<" ", "\n">> \o p \o <<"\n">>

Replies == {Wrap(w, p) : w \in Wraps, p \in Payloads \cup OtherJson \cup NotJson}

AllRequests == Requests(Names)

SampleRequests == Requests(SampleNames)

SampleReplies ==
  {ObjectText(Quoted(<<"Realistic">>), <<>>),
   Fenced(ObjectText(Quoted(<<"Not Realistic">>), Quoted(<<"keyboard", " ", "pattern">>))),
   <<"x">>, <<"1">>, <<"0">>}

(***************************************************************************)
(* The evaluation harness: evaluate_model replays the dataset against the  *)
(* endpoint, each request wrapped by                                       *)
(* @retry(stop_max_attempt_number=3, wait_fixed=2000).                     *)
(***************************************************************************)
stop_max_attempt_number == 3

\* milliseconds
wait_fixed == 2000

Indices == 1..NumNames

\* an attempt that raises: requests.post fails (connection, timeout), or
\* raise_for_status meets an error status
Failures == {"ConnectionError", "HTTPError"}

\* an attempt that returns response.json(): the body's prediction, if any
Successes == {"Realistic", "Not Realistic", "NoPrediction"}

\* predictions[idx] before the parallel harness sets it
Unset == -1

\* mutant: one attempt more is allowed
should_stop_late(attempt_number) == attempt_number > stop_max_attempt_number

\* retrying's stop_after_attempt
should_stop(attempt_number) == attempt_number >= stop_max_attempt_number

\* what evaluate_model records for a request that returned o or raised
predicted_value(st, o) ==
  IF st = "raised" THEN 0
  ELSE IF o = "NoPrediction" THEN 0
  ELSE IF o = "Realistic" THEN 1 ELSE 0

FirstUnset(preds) == CHOOSE k \in 1..Len(preds) : preds[k] = Unset /\ \A j \in 1..(k - 1) : preds[j] # Unset

\* mutant: the parallel harness stores results in completion order
store_in_completion_order(mode, preds, i, v) ==
  IF mode = "sequential" THEN Append(preds, v)
  ELSE [preds EXCEPT ![FirstUnset(preds)] = v]

\* predictions.append(v) of test_models.py, predictions[idx] = v of
\* test_models_parallel.py
store(mode, preds, i, v) ==
  IF mode = "sequential" THEN Append(preds, v) ELSE [preds EXCEPT ![i] = v]

\* name i has its entry
Recorded(i) ==
  IF harness = "sequential" THEN Len(predictions) >= i ELSE predictions[i] # Unset

HarnessOff ==
  /\ harness = "none"
  /\ hpc = "off"
  /\ stage = [i \in Indices |-> "queued"]
  /\ attempt = [i \in Indices |-> 0]
  /\ outcome = [i \in Indices |-> "none"]
  /\ slept = [i \in Indices |-> 0]
  /\ predictions = <<>>

\* evaluate_model(df, model) is called
StartHarness ==
  /\ hpc = "off"
  /\ \E m \in {"sequential", "parallel"} :
       /\ harness' = m
       /\ predictions' = IF m = "parallel" THEN [i \in Indices |-> Unset] ELSE <<>>
  /\ hpc' = "running"
  /\ UNCHANGED <<stage, attempt, outcome, slept, pvars>>

Busy == {j \in Indices : stage[j] \in {"running", "waiting"}}

\* send_prediction_request for name i starts: the loop reaches it
\* (sequential), or a free worker takes it from the queue (parallel)
Begin(i) ==
  /\ hpc = "running"
  /\ stage[i] = "queued"
  /\ IF harness = "sequential"
     THEN Len(predictions) = i - 1
     ELSE /\ \A j \in 1..(i - 1) : stage[j] # "queued"
          /\ Cardinality(Busy) < MaxWorkers
  /\ stage' = [stage EXCEPT ![i] = "running"]
  /\ UNCHANGED <<harness, hpc, attempt, outcome, slept, predictions, pvars>>

\* one attempt of send_prediction_request for name i, with outcome o
Attempt(i) ==
  /\ hpc = "running"
  /\ stage[i] = "running"
  /\ \E o \in Failures \cup Successes :
       /\ outcome' = [outcome EXCEPT ![i] = o]
       /\ stage' = [stage EXCEPT ![i] =
                      IF o \in Successes THEN "returned"
                      ELSE IF should_stop(attempt[i] + 1) THEN "raised"
                      ELSE "waiting"]
  /\ attempt' = [attempt EXCEPT ![i] = attempt[i] + 1]
  /\ UNCHANGED <<harness, hpc, slept, predictions, pvars>>

\* time.sleep(wait_fixed / 1000) between two attempts
Wait(i) ==
  /\ hpc = "running"
  /\ stage[i] = "waiting"
  /\ slept' = [slept EXCEPT ![i] = slept[i] + wait_fixed]
  /\ stage' = [stage EXCEPT ![i] = "running"]
  /\ UNCHANGED <<harness, hpc, attempt, outcome, predictions, pvars>>

\* evaluate_model records the prediction of name i: in its loop body
\* (sequential), or as as_completed yields the future (parallel)
Collect(i) ==
  /\ hpc = "running"
  /\ stage[i] \in {"returned", "raised"}
  /\ ~Recorded(i)
  /\ harness = "sequential" => Len(predictions) = i - 1
  /\ predictions' = store(harness, predictions, i, predicted_value(stage[i], outcome[i]))
  /\ UNCHANGED <<harness, hpc, stage, attempt, outcome, slept, pvars>>

\* evaluate_model returns (accuracy, predictions)
ReturnHarness ==
  /\ hpc = "running"
  /\ \A i \in Indices : stage[i] \in {"returned", "raised"} /\ Recorded(i)
  /\ hpc' = "returned"
  /\ UNCHANGED <<harness, stage, attempt, outcome, slept, predictions, pvars>>

NextHarness ==
  \/ StartHarness
  \/ \E i \in Indices : Begin(i)
  \/ \E i \in Indices : Attempt(i)
  \/ \E i \in Indices : Wait(i)
  \/ \E i \in Indices : Collect(i)
  \/ ReturnHarness

(***************************************************************************)
(* The endpoint: one request at a time from arrival to response.           *)
(***************************************************************************)
Init ==
  /\ pc = "idle"
  /\ variant = "app"
  /\ data = [hasName |-> FALSE, name |-> <<>>, hasModel |-> FALSE, model |-> ""]
  /\ model = ""
  /\ name = <<>>
  /\ prechecked = FALSE
  /\ precheck = NotRun
  /\ reply = <<>>
  /\ response = NoResponse
  /\ remoteCalls = 0
  /\ remoteOutcome = "none"
  /\ HarnessOff

\* POST /predict reaches predict, which runs to its response or to the
\* call of client.chat.completions.create
Receive(v, d) ==
  LET out == predict(v, d)
  IN /\ pc = "idle"
     /\ variant' = v
     /\ data' = d
     /\ model' = ModelOf(v, d)
     /\ name' = out.name
     /\ prechecked' = out.prechecked
     /\ precheck' = out.precheck
     /\ reply' = <<>>
     /\ response' = out.response
     /\ remoteCalls' = IF out.call THEN remoteCalls + 1 ELSE remoteCalls
     /\ remoteOutcome' = IF out.call THEN "pending" ELSE "none"
     /\ pc' = IF out.call THEN "calling" ELSE "done"
     /\ UNCHANGED hvars

Predict(requests) ==
  /\ pc = "idle"
  /\ \E v \in Variants, d \in requests : Receive(v, d)

\* the remote call returns message content r, and predict runs to its response
RemoteReturns(replies) ==
  /\ pc = "calling"
  /\ \E r \in replies :
       /\ reply' = r
       /\ response' = handle_reply(variant, name, r)
  /\ remoteOutcome' = "returned"
  /\ pc' = "done"
  /\ UNCHANGED <<variant, data, model, name, prechecked, precheck, remoteCalls, hvars>>

\* the remote call raises (transport or provider error, timeout)
RemoteRaises ==
  /\ pc = "calling"
  /\ response' = ErrorResponse(500, "OpenAI API error")
  /\ remoteOutcome' = "raised"
  /\ pc' = "done"
  /\ UNCHANGED <<variant, data, model, name, prechecked, precheck, reply, remoteCalls, hvars>>

\* the response is sent; the process waits for the next request
Respond ==
  /\ pc = "done"
  /\ pc' = "idle"
  /\ variant' = "app"
  /\ data' = [hasName |-> FALSE, name |-> <<>>, hasModel |-> FALSE, model |-> ""]
  /\ model' = ""
  /\ name' = <<>>
  /\ prechecked' = FALSE
  /\ precheck' = NotRun
  /\ reply' = <<>>
  /\ response' = NoResponse
  /\ remoteCalls' = 0
  /\ remoteOutcome' = "none"
  /\ UNCHANGED hvars

\* every name of the bounds, a few replies
Next == Predict(AllRequests) \/ RemoteReturns(SampleReplies) \/ RemoteRaises \/ Respond

Spec == Init /\ [][Next]_vars

\* a few names, every reply
NextReplies == Predict(SampleRequests) \/ RemoteReturns(Replies) \/ RemoteRaises \/ Respond

SpecReplies == Init /\ [][NextReplies]_vars

\* the harness alone, its requests answered by an arbitrary endpoint
SpecHarness == Init /\ [][NextHarness]_vars

(***************************************************************************)
(* Properties.                                                             *)
(***************************************************************************)
PrecheckCode == ReasonCode(precheck.reason)

ReasonCodes ==
  <<"InvalidCharacters", "TooFewLetters", "ConsecutivePunctuation", "InvalidDotFormatting">>

\* C1: a remote call is issued during a request only if the normalized name
\* is non-empty, the requested model is in VALID_MODELS and, where the
\* variant has a pre-check, precheck_name returned valid; every other
\* request ends without a remote call.
C1_RemoteCallOnlyAfterChecks ==
  /\ remoteCalls > 0 =>
       /\ name # <<>>
       /\ name = Normalize(variant, RawName(data))
       /\ model \in VALID_MODELS
       /\ variant \in PrecheckVariants => prechecked /\ precheck.valid
  /\ (pc = "done" /\ remoteOutcome = "none") => remoteCalls = 0

C1_Witness ==
  /\ pc = "calling" /\ remoteCalls = 1
  /\ variant = "app-precheck-prompt-enhanment"
  /\ precheck.valid

\* C2: every request whose normalized name is non-empty and whose model is
\* not in VALID_MODELS ends in the InvalidModel client error (HTTP 400),
\* whatever the pre-check says of the name, never in a Not Realistic verdict.
C2_InvalidModelBeforePrecheck ==
  (pc = "done" /\ name # <<>> /\ model \notin VALID_MODELS) =>
     /\ ErrorKind(response) = "InvalidModel"
     /\ response.status = 400
     /\ response.prediction # "Not Realistic"

\* C3: whenever the pre-check rejects a candidate, the response is a Not
\* Realistic verdict that carries a reason, one of the four reason codes.
C3_RejectionCarriesReason ==
  (pc = "done" /\ prechecked /\ ~precheck.valid) =>
     /\ response.status = 200
     /\ response.prediction = "Not Realistic"
     /\ response.reason.kind = "string"
     /\ Len(response.reason.text) = 1
     /\ ReasonCode(response.reason.text[1]) \in {ReasonCodes[k] : k \in 1..4}

Violates(k, s) ==
  CASE k = 1 -> InvalidCharacters(s)
    [] k = 2 -> TooFewLetters(s)
    [] k = 3 -> ConsecutivePunctuation(s)
    [] k = 4 -> InvalidDotFormatting(s)

Violated(s) == {k \in 1..4 : Violates(k, s)}

\* C4: the reason precheck_name returns is that of the lowest-numbered rule
\* the string violates, and the result is valid, with no reason, exactly when
\* the string violates none of the four rules.
C4_FirstFailingRuleWins ==
  prechecked =>
     IF Violated(name) = {}
     THEN precheck.valid /\ precheck.reason = NoReason
     ELSE ~precheck.valid /\ PrecheckCode = ReasonCodes[Min(Violated(name))]

C4_Witness ==
  /\ prechecked
  /\ Violated(name) = {3, 4}
  /\ PrecheckCode = "ConsecutivePunctuation"

\* C5 as stated: every string with fewer than 3 ASCII letters fails the
\* pre-check with the reason TooFewLetters.
C5_FewLettersAlwaysTooFewLetters ==
  (prechecked /\ LetterCount(name) < 3) =>
     ~precheck.valid /\ PrecheckCode = "TooFewLetters"

\* C5 amended: every string with fewer than 3 ASCII letters fails the
\* pre-check, with InvalidCharacters when it holds a character other than an
\* ASCII letter, whitespace, hyphen or period, and with TooFewLetters otherwise.
C5_FewLettersRejected ==
  (prechecked /\ LetterCount(name) < 3) =>
     /\ ~precheck.valid
     /\ PrecheckCode =
          IF \E i \in 1..Len(name) :
                name[i] \notin (AsciiLetter \cup Whitespace \cup {"-", "."})
          THEN "InvalidCharacters" ELSE "TooFewLetters"

C5_Witness ==
  /\ prechecked
  /\ name = <<"K", "u">>
  /\ PrecheckCode = "TooFewLetters"
  /\ response.prediction = "Not Realistic"

LetterDotLetter(s) ==
  \E i \in 2..(Len(s) - 1) :
     s[i] = "." /\ s[i - 1] \in AsciiLetter /\ s[i + 1] \in AsciiLetter

\* C6: a candidate that passes rules 1-3 fails with InvalidDotFormatting
\* exactly when some period has a letter immediately before it and a letter
\* immediately after it, and passes otherwise; 'm.ahmed' is rejected with
\* InvalidDotFormatting, 'Mr. Hanif Uddin' and 'p. k. robi' pass.
C6_DotFormatting ==
  /\ (prechecked /\ Violated(name) \cap {1, 2, 3} = {}) =>
        IF LetterDotLetter(name)
        THEN ~precheck.valid /\ PrecheckCode = "InvalidDotFormatting"
        ELSE precheck.valid
  /\ (prechecked /\ RawName(data) = <<"m",".","a","h","m","e","d">>) =>
        ~precheck.valid /\ PrecheckCode = "InvalidDotFormatting"
  /\ (prechecked /\ RawName(data) \in {<<"M","r","."," ","H","a","n","i","f"," ","U","d","d","i","n">>, <<"p","."," ","k","."," ","r","o","b","i">>}) => precheck.valid

C6_Witness ==
  /\ prechecked
  /\ RawName(data) = <<"p","."," ","k","."," ","r","o","b","i">>
  /\ name = <<"P","."," ","K","."," ","R","o","b","i">>
  /\ precheck.valid

\* C7: normalization is idempotent: normalizing the normalized name gives
\* the normalized name, for every input, non-ASCII ones included.
C7_NormalizeIdempotent ==
  pc \in {"calling", "done"} => Normalize(variant, name) = name

\* C8: for every JSON object payload P, the reply that is P in a fenced code
\* block annotated as json gets the same response as the reply that is P alone.
C8_FencedSameAsBare ==
  (pc = "done" /\ remoteOutcome = "returned" /\ variant \in JsonVariants) =>
     \A p \in Payloads : reply = Fenced(p) => response = handle_reply(variant, name, p)

\* the replies that hold no JSON at all: a text that is no JSON, alone or in
\* any wrapping
NotJsonReplies == {Wrap(w, p) : w \in Wraps, p \in NotJson}

\* C9: a reply that is not valid JSON at all ends the request with the
\* MalformedResponse error (HTTP 500, 'Invalid JSON response format from
\* model'); a response is always produced and the remote model is called
\* once per request, never a second time.
C9_NotJsonIsMalformed ==
  /\ remoteCalls <= 1
  /\ (pc = "done" /\ remoteOutcome = "returned" /\ variant \in JsonVariants
        /\ reply \in NotJsonReplies) =>
       /\ response = ErrorResponse(500, "Invalid JSON response format from model")
       /\ ErrorKind(response) = "MalformedResponse"
       /\ remoteCalls = 1

C9_Witness ==
  /\ pc = "done" /\ remoteOutcome = "returned"
  /\ variant = "app-precheck"
  /\ reply = Fenced(ObjectText(Quoted(<<"Realistic">>), <<>>) \o <<" ", "x">>)
  /\ ErrorKind(response) = "MalformedResponse"
  /\ remoteCalls = 1

\* C10: whenever the remote call returns a reply the request ends in a
\* verdict, in MalformedResponse or in InvalidPrediction, never in
\* RemoteError; and every reply that parses as JSON but whose prediction is
\* absent or is neither "Realistic" nor "Not Realistic" ends in the
\* InvalidPrediction error (HTTP 500), for every JSON value.
C10_ReturnedReplyNeverRemoteError ==
  (pc = "done" /\ remoteOutcome = "returned" /\ variant \in JsonVariants) =>
     LET loaded == JsonLoads(extract_json_from_response(Strip(reply)))
     IN /\ ErrorKind(response) \in {"None", "MalformedResponse", "InvalidPrediction"}
        /\ (loaded.ok /\ DictGet(loaded.value, <<"prediction">>, JNone)
                            \notin {Realistic, NotRealistic}) =>
              ErrorKind(response) = "InvalidPrediction" /\ response.status = 500

\* the value a text of ReasonTexts denotes, the placeholder for no text
ExpectedReason(r) ==
  IF r = <<>> THEN ReasonPlaceholder
  ELSE IF Head(r) = Q THEN JString(SubSeq(r, 2, Len(r) - 1))
  ELSE IF r = <<"null">> THEN JNone
  ELSE JValue("object", <<>>, <<>>)

ReplyVerdict == response.status = 200 /\ response.prediction # ""

\* C11: for every reply that validates, a Realistic prediction yields a
\* verdict with no reason, whatever reason the reply held; a Not Realistic
\* prediction yields a verdict that has a reason, the reply's own when it has
\* one and 'Reason not provided by AI.' when it has none.
C11_VerdictReason ==
  (pc = "done" /\ remoteOutcome = "returned" /\ variant \in JsonVariants /\ ReplyVerdict) =>
     /\ response.prediction = "Realistic" =>
          response = VerdictResponse(name, "Realistic", JAbsent)
     /\ response.prediction = "Not Realistic" => response.reason # JAbsent
     /\ \A w \in Wraps, r \in ReasonTexts :
          /\ reply = Wrap(w, ObjectText(Quoted(<<"Realistic">>), r)) =>
               response.prediction = "Realistic" /\ response.reason = JAbsent
          /\ reply = Wrap(w, ObjectText(Quoted(<<"Not Realistic">>), r)) =>
               response.prediction = "Not Realistic" /\ response.reason = ExpectedReason(r)

C11_Witness ==
  /\ pc = "done" /\ remoteOutcome = "returned" /\ variant = "app"
  /\ reply = Fenced(ObjectText(Quoted(<<"Not Realistic">>), <<>>))
  /\ response = VerdictResponse(name, "Not Realistic", ReasonPlaceholder)

IsVerdict(r) == r.prediction # ""

IsError(r) == r.error # ""

Entry(i) == IF stage[i] = "returned" /\ outcome[i] = "Realistic" THEN 1 ELSE 0

\* C13: send_prediction_request is attempted at most 3 times for a name,
\* with a fixed wait of 2 seconds between attempts, a failed attempt being a
\* transport error or an error status; it stops at the first success, and
\* when all 3 attempts fail the exception propagates, evaluate_model records
\* 0 for that name and goes on with the remaining names.
C13_FixedRetry ==
  /\ \A i \in Indices :
       /\ attempt[i] <= 3
       /\ stage[i] = "queued" => attempt[i] = 0
       /\ stage[i] = "running" =>
            /\ attempt[i] < 3 /\ slept[i] = 2000 * attempt[i]
            /\ attempt[i] > 0 => outcome[i] \in {"ConnectionError", "HTTPError"}
       /\ stage[i] = "waiting" =>
            /\ attempt[i] \in 1..2 /\ slept[i] = 2000 * (attempt[i] - 1)
            /\ outcome[i] \in {"ConnectionError", "HTTPError"}
       /\ stage[i] = "returned" =>
            /\ attempt[i] \in 1..3 /\ slept[i] = 2000 * (attempt[i] - 1)
            /\ outcome[i] \notin {"ConnectionError", "HTTPError", "none"}
       /\ stage[i] = "raised" =>
            /\ attempt[i] = 3 /\ slept[i] = 4000
            /\ outcome[i] \in {"ConnectionError", "HTTPError"}
            /\ Recorded(i) => predictions[i] = 0
  /\ hpc = "returned" =>
       /\ Len(predictions) = NumNames
       /\ \A i \in Indices : attempt[i] >= 1

C13_Witness ==
  /\ harness = "sequential" /\ hpc = "returned"
  /\ stage[1] = "raised" /\ predictions[1] = 0
  /\ stage[2] = "returned" /\ attempt[2] = 2 /\ predictions[2] = 1

\* C14: when evaluate_model returns, sequential or parallel, predictions has
\* exactly one entry per dataset name, none unset, and entry i is 1 iff the
\* request for name i returned the prediction 'Realistic', 0 otherwise or on
\* error, in whatever order the worker threads complete.
C14_OneEntryPerName ==
  /\ hpc = "returned" =>
       /\ Len(predictions) = NumNames
       /\ \A i \in Indices : predictions[i] \in {0, 1} /\ predictions[i] = Entry(i)
  /\ hpc = "running" =>
       /\ Len(predictions) <= NumNames
       /\ \A i \in Indices :
            Recorded(i) => stage[i] \in {"returned", "raised"} /\ predictions[i] = Entry(i)

C14_Witness ==
  /\ harness = "parallel" /\ hpc = "returned"
  /\ attempt[1] = 3 /\ stage[1] = "returned" /\ predictions[1] = 1
  /\ stage[2] = "raised" /\ predictions[2] = 0
  /\ attempt[3] = 1 /\ outcome[3] = "NoPrediction" /\ predictions[3] = 0

====
